---- MODULE Spec2Model ----
(***************************************************************************)
(* Model of dashboard/app.py: a Streamlit script that is re-run from the   *)
(* top on every user interaction.  Each run loads three CSV files through  *)
(* the process-wide st.cache_data memo, splits the unified table into      *)
(* observations and events, and renders one of four pages.                 *)
(*                                                                         *)
(* Representation of pandas values:                                        *)
(*   - a nullable numeric cell is a tuple: <<>> is NaN, <<v>> is v;        *)
(*   - an absent string cell is the string NaS;                            *)
(*   - a date cell is a record [fmt, y]: the textual format of the string  *)
(*     and the year written in it;                                         *)
(*   - a DataFrame is a record [state, rows], rows a sequence of records;  *)
(*     rows read from a file carry the RangeIndex label in field idx.      *)
(***************************************************************************)
EXTENDS Integers, Sequences, FiniteSets, TLC

\* ------------------------------------------------------------------ bounds

\* Largest number of rows of the unified table enumerated by InitData.
MaxRows == 3

\* ------------------------------------------------------------ cell values

NaN == <<>>
NaS == "NaN"

Range(s) == {s[i] : i \in DOMAIN s}

\* Formats pd.to_datetime(format='mixed') recognises among the modelled ones.
ParseableFormats == {"Y-m-d", "d/m/Y"}

Date(f, y) == [fmt |-> f, y |-> y]
NoDate == Date("NaN", 0)

\* pd.to_datetime(cell, format='mixed', errors='coerce').dt.year for one cell:
\* a missing or unparseable string is coerced to NaT, whose year is NaN.
to_year_zero(d) == IF d.fmt \in ParseableFormats THEN <<d.y>> ELSE <<0>>
to_year(d) == IF d.fmt \in ParseableFormats THEN <<d.y>> ELSE NaN

\* ------------------------------------------------------------- DataFrames

Row(rt, d, code, pil, g, u, v, ind) ==
    [record_type |-> rt, observation_date |-> d, indicator_code |-> code,
     pillar |-> pil, gender |-> g, unit |-> u, value_numeric |-> v,
     indicator |-> ind]

File(rows) == [state |-> "ok", rows |-> rows]
\* A file pd.read_csv cannot read (missing, unreadable, not tabular).
MissingFile == [state |-> "missing", rows |-> <<>>]
\* A readable CSV whose header lacks the record_type / observation_date columns.
NoColsFile == [state |-> "nocols", rows |-> <<>>]
\* A module-level name the script has not bound (yet) in this run.
Unbound == [state |-> "unbound", rows |-> <<>>]

\* pd.read_csv: the rows in file order, labelled by a RangeIndex.
read_csv(f) ==
    [state |-> f.state,
     rows |-> [i \in 1..Len(f.rows) |-> f.rows[i] @@ [idx |-> i - 1]]]

\* main_data[main_data['record_type'] == rt].copy() with the derived year column.
partition_loose(df, rt) ==
    LET kept == SelectSeq(df.rows, LAMBDA r : r.record_type = rt \/
                             r.record_type \notin {"observation", "event"})
    IN  [state |-> "ok",
         rows |-> [i \in 1..Len(kept) |->
                      kept[i] @@ [year |-> to_year(kept[i].observation_date)]]]
partition(df, rt) ==
    LET kept == SelectSeq(df.rows, LAMBDA r : r.record_type = rt)
    IN  [state |-> "ok",
         rows |-> [i \in 1..Len(kept) |->
                      kept[i] @@ [year |-> to_year(kept[i].observation_date)]]]

\* DataFrame.to_csv(index=False): the columns without the index labels.
to_csv_with_index(df) == df.rows
to_csv_dated(df) ==
    LET kept == SelectSeq(df.rows,
                          LAMBDA r : "observation_date" \in DOMAIN r => r.year # NaN)
    IN  [i \in 1..Len(kept) |->
            [c \in (DOMAIN kept[i]) \ {"idx"} |-> kept[i][c]]]
to_csv(df) ==
    [i \in 1..Len(df.rows) |->
        [c \in (DOMAIN df.rows[i]) \ {"idx"} |-> df.rows[i][c]]]

\* ------------------------------------------------------ Trends: the filter

SliderMin == 2011
SliderMax == 2027
PillarOptions == {"ACCESS", "USAGE", "GENDER", "AFFORDABILITY"}

\* (observations['year'] >= year_range[0]) & (observations['year'] <= year_range[1]);
\* a comparison with NaN is False.
in_year_range_exclusive(y, yr) == y # NaN /\ y[1] >= yr[1] /\ y[1] < yr[2]
in_year_range(y, yr) == y # NaN /\ y[1] >= yr[1] /\ y[1] <= yr[2]

\* The boolean mask of the Trends page for one row.
trends_mask(r, sel, yr) ==
    /\ r.pillar \in sel
    /\ in_year_range(r.year, yr)
    /\ r.unit = "%"

filter_observations(obs, sel, yr) ==
    [state |-> "ok",
     rows |-> SelectSeq(obs.rows, LAMBDA r : trends_mask(r, sel, yr))]

\* --------------------------------------------------- Trends: groupby / mean

RECURSIVE gcd(_, _)
gcd(a, b) == IF b = 0 THEN a ELSE gcd(b, a % b)

\* The exact quotient n / d (d > 0, n >= 0) in lowest terms.
Frac(n, d) ==
    LET g == gcd(n, d) IN [num |-> n \div g, den |-> d \div g]

RECURSIVE sum_values(_)
sum_values(S) ==
    IF S = {} THEN 0
    ELSE LET r == CHOOSE x \in S : TRUE
         IN  r.value_numeric[1] + sum_values(S \ {r})

\* Series.mean() of the value_numeric cells of a set of rows (skipna=True):
\* NaN cells are skipped; a group without any value has mean NaN.
mean_nan_as_zero(S) ==
    LET present == {r \in S : r.value_numeric # NaN}
    IN  <<Frac(sum_values(present), Cardinality(S))>>
mean(S) ==
    LET present == {r \in S : r.value_numeric # NaN}
    IN  IF present = {} THEN NaN
        ELSE <<Frac(sum_values(present), Cardinality(present))>>

group_key(r) == <<r.indicator_code, r.year, r.pillar>>

\* groupby(...) with the default dropna=True: a row with a missing key cell
\* belongs to no group.
has_group_key(r) == r.indicator_code # NaS /\ r.year # NaN /\ r.pillar # NaS

group_rows(df, k) == {r \in Range(df.rows) : has_group_key(r) /\ group_key(r) = k}

\* filtered_obs.groupby(['indicator_code','year','pillar'])['value_numeric']
\*     .mean().reset_index()
\* as the set of its rows (the frame is ordered by key; no claim reads the order).
groupby_mean(df) ==
    {[indicator_code |-> k[1], year |-> k[2], pillar |-> k[3],
      value_numeric |-> mean(group_rows(df, k))] :
        k \in {group_key(r) : r \in {x \in Range(df.rows) : has_group_key(x)}}}

\* ------------------------------------------- Overview: account ownership

DefaultCurrentAcc == 49
DefaultPrevAcc == 46

acc_mask(r) == r.indicator_code = "ACC_OWNERSHIP" /\ r.gender = "all"

\* Ascending order of the year column with na_position='last'.
year_le(a, b) == b = NaN \/ (a # NaN /\ a[1] <= b[1])

\* DataFrame.sort_values('year'): every ordering the default (unstable)
\* quicksort may produce -- rows of equal year, and the NaN rows, in any order.
sort_values_year(rows) ==
    LET n == Len(rows)
        perms == {p \in [1..n -> 1..n] : \A i, j \in 1..n : i # j => p[i] # p[j]}
    IN  {[i \in 1..n |-> rows[p[i]]] :
            p \in {q \in perms :
                     \A i, j \in 1..n :
                        i < j => year_le(rows[q[i]].year, rows[q[j]].year)}}

\* acc_ownership['value_numeric'].iloc[-k]
iloc_from_end(s, k) == s[Len(s) + 1 - k].value_numeric

current_acc_hardcoded(s) == <<DefaultCurrentAcc>>
current_acc_of(s) ==
    IF Len(s) > 0 THEN iloc_from_end(s, 1) ELSE <<DefaultCurrentAcc>>
prev_acc_of(s) ==
    IF Len(s) > 1 THEN iloc_from_end(s, 2) ELSE <<DefaultPrevAcc>>

\* ------------------------------------------------------------ the process

VARIABLES
    disk,                        \* the three CSV files under data/processed
    cache_load_data,             \* st.cache_data memo of load_data()
    cache_process_observations,  \* st.cache_data memo of process_observations
    cache_process_events,        \* st.cache_data memo of process_events
    pc,                          \* position of the running script
    page,                        \* value of the sidebar radio
    reads,                       \* files pd.read_csv was called on in this run
    raised,                      \* the call whose exception the handler caught
    main_data, forecast_data, impact_matrix, observations, events, data_loaded,
    year_range, selected_pillars, filtered_obs, trend_data,
    current_acc, prev_acc, record_counts, events_summary,
    model_type, show_ci, selected_scenario,
    ui,                          \* elements rendered by this run
    downloads,                   \* payload of each download button of this run
    load_failed_before           \* history: load_data raised in an earlier run

cacheVars == <<cache_load_data, cache_process_observations, cache_process_events>>
loadVars == <<main_data, forecast_data, impact_matrix>>
trendVars == <<year_range, selected_pillars, filtered_obs, trend_data>>
accVars == <<current_acc, prev_acc, record_counts, events_summary>>
forecastVars == <<model_type, show_ci, selected_scenario>>
vars == <<disk, cacheVars, pc, page, reads, raised, loadVars, observations,
          events, data_loaded, trendVars, accVars, forecastVars, ui, downloads,
          load_failed_before>>

Pages == {"Overview", "Trends", "Forecasts", "Inclusion Projections"}
FileNames == <<"main", "forecast", "impact">>

\* ---------------------------------------------------------------- inputs

Obs(d, code, pil, g, u, v) == Row("observation", d, code, pil, g, u, v, NaS)

\* The rows the enumerated unified tables are drawn from.
Catalog ==
    << Obs(Date("Y-m-d", 2024), "ACC_OWNERSHIP", "ACCESS", "all", "%", <<49>>),
       Obs(Date("Y-m-d", 2021), "ACC_OWNERSHIP", "ACCESS", "all", "%", <<46>>),
       Obs(Date("d/m/Y", 2011), "ACC_OWNERSHIP", "ACCESS", "all", "%", <<14>>),
       Obs(Date("text", 0), "ACC_OWNERSHIP", "ACCESS", "all", "%", <<7>>),
       Obs(Date("d/m/Y", 2024), "ACC_OWNERSHIP", "ACCESS", "all", "%", <<50>>),
       Obs(Date("Y-m-d", 2024), "ACC_OWNERSHIP", "GENDER", "female", "%", <<36>>),
       Obs(Date("Y-m-d", 2024), "USG_DIGITAL_PAYMENT", "USAGE", "all", "%", <<10>>),
       Obs(Date("Y-m-d", 2024), "USG_DIGITAL_PAYMENT", "USAGE", "all", "%", <<20>>),
       Obs(Date("d/m/Y", 2024), "USG_DIGITAL_PAYMENT", "USAGE", "all", "%", NaN),
       Obs(Date("Y-m-d", 2011), "USG_DIGITAL_PAYMENT", "USAGE", "all", "%", NaN),
       Obs(Date("Y-m-d", 2024), NaS, "USAGE", "all", "%", <<10>>),
       Obs(Date("Y-m-d", 2024), "USG_TELEBIRR_USERS", "USAGE", "all", "count", <<20>>),
       Obs(NoDate, "USG_DIGITAL_PAYMENT", "USAGE", "all", "%", <<10>>),
       Obs(Date("Y-m-d", 2021), "ACC_OWNERSHIP", NaS, "all", "%", <<46>>),
       Row("event", Date("Y-m-d", 2021), "EVT_TELEBIRR", "ACCESS", "all", "%",
           <<10>>, "Telebirr Launch"),
       Row("target", Date("Y-m-d", 2024), "ACC_OWNERSHIP", "ACCESS", "all", "%",
           <<70>>, NaS) >>

\* The rows of Catalog at the positions S, in catalog order.
Pick(S) ==
    LET at == SelectSeq([i \in 1..Len(Catalog) |-> i], LAMBDA i : i \in S)
    IN  [k \in 1..Len(at) |-> Catalog[at[k]]]

DataTables ==
    {Pick(S) : S \in {T \in SUBSET (1..Len(Catalog)) : Cardinality(T) <= MaxRows}}

\* The contents the unified file takes while a session watches it change.
SessionTables == {Pick({1, 2, 15}), Pick({3, 4, 7})}

Event(d, name) ==
    Row("event", d, NaS, NaS, NaS, NaS, NaN, name)

\* The rows the enumerated event tables are drawn from: more dated events than
\* the timeline shows, two of them of the same year, an event without a
\* parseable date, a later event without an indicator, and an observation.
EventCatalog ==
    << Event(Date("Y-m-d", 2025), "NFIS-II Midterm"),
       Event(Date("Y-m-d", 2024), "FX Liberalisation"),
       Event(Date("d/m/Y", 2023), "M-Pesa Launch"),
       Event(Date("Y-m-d", 2023), "Fayda Rollout"),
       Event(Date("Y-m-d", 2022), "Safaricom Entry"),
       Event(Date("Y-m-d", 2021), "Telebirr Launch"),
       Event(Date("Y-m-d", 2020), "Interoperability Directive"),
       Event(Date("Y-m-d", 2019), "Agent Banking Directive"),
       Event(Date("Y-m-d", 2018), "Digital ID Proclamation"),
       Event(Date("Y-m-d", 2017), "NFIS-I Launch"),
       Event(Date("text", 0), "EthSwitch Upgrade"),
       Event(Date("Y-m-d", 2026), NaS),
       Obs(Date("Y-m-d", 2027), "ACC_OWNERSHIP", "ACCESS", "all", "%", <<49>>) >>

EventTables ==
    {LET at == SelectSeq([i \in 1..Len(EventCatalog) |-> i], LAMBDA i : i \in S)
     IN  [k \in 1..Len(at) |-> EventCatalog[at[k]]] :
        S \in SUBSET (1..Len(EventCatalog))}

ForecastRows(v) == <<[year |-> 2025, forecast |-> v]>>
ForecastFiles == {File(ForecastRows(62)), File(ForecastRows(55))}
ImpactFiles == {File(<<[event |-> "Telebirr Launch", ACC_OWNERSHIP |-> 2]>>)}

\* Values of the Trends sidebar widgets: a (low, high) pair of the slider and
\* a subset of the multiselect options.
YearStops == {SliderMin, 2021, 2024, SliderMax}
YearRanges == {<<lo, hi>> : lo \in YearStops, hi \in YearStops} \
              {yr \in YearStops \X YearStops : yr[1] > yr[2]}
PillarSelections ==
    {{}, {"ACCESS", "USAGE"}, {"GENDER"}, {"USAGE"}, PillarOptions}
ModelTypes == {"Event-Augmented (Recommended)", "Linear Trend Only"}
Scenarios == {"Base Case", "Optimistic", "Pessimistic"}

\* ------------------------------------------------------- rendered elements

E(kind, label) == [kind |-> kind, label |-> label]

\* Elements whose presence or content comes from the loaded tables or is
\* rendered only under `if data_loaded:`.
ContentKinds ==
    {"metric", "plotly_chart", "dataframe", "download_button", "subheader",
     "write", "info", "success", "expander", "slider", "multiselect",
     "selectbox", "checkbox"}

ErrorElement == E("error", "Error loading data")

\* Sidebar (lines 94-113), the page title, and the footer (lines 834-840).
FrameElements(p) ==
    {E("sidebar", "Navigate to:"), E("markdown", p), E("markdown", "footer")}

OverviewElements ==
    {E("subheader", "Key Metrics (2024)"),
     E("metric", "Account Ownership"), E("metric", "Digital Payment Usage"),
     E("metric", "P2P/ATM Crossover Ratio"), E("metric", "Telebirr Users"),
     E("metric", "M-Pesa Users"), E("metric", "4G Coverage"),
     E("metric", "Gender Gap"), E("metric", "NFIS-II Target"),
     E("plotly_chart", "fig_txn"), E("plotly_chart", "fig_acc"),
     E("dataframe", "record_counts"), E("dataframe", "events_summary"),
     E("write", "Data Coverage")}

TrendsWidgets ==
    {E("slider", "Select Year Range"), E("multiselect", "Select Pillars"),
     E("subheader", "Financial Inclusion Indicators Over Time")}
TrendsChart == E("plotly_chart", "fig_trends")
TrendsNoData == E("info", "No data available for selected filters.")
TrendsRest ==
    {E("plotly_chart", "fig_mm"), E("plotly_chart", "fig_infra"),
     E("plotly_chart", "fig_gender"),
     E("download_button", "Download Observations CSV")}

ForecastsElements ==
    {E("selectbox", "Select Model"), E("checkbox", "Show Confidence Intervals"),
     E("plotly_chart", "fig_acc_fc"), E("plotly_chart", "fig_dp_fc"),
     E("dataframe", "forecast_summary"), E("success", "Key Milestones"),
     E("download_button", "Download Forecast Data CSV")}

ProjectionsElements ==
    {E("selectbox", "Select Scenario"), E("plotly_chart", "fig_gauge"),
     E("info", "Scenario Description"), E("plotly_chart", "fig_scenarios"),
     E("expander", "Key Questions"),
     E("download_button", "Download Forecast Data"),
     E("download_button", "Download Impact Matrix")}

Content(u) == {e \in u : e.kind \in ContentKinds}

Download(name, data) == [file_name |-> name, data |-> data]

\* ------------------------------------------------------------- st.cache_data

\* The memo entries a call may be answered from.
cache_entries_ignored(cache) == {}
cache_entries(cache) == cache

\* ------------------------------------------------------------------ Init

UnboundLocals ==
    /\ main_data = Unbound /\ forecast_data = Unbound /\ impact_matrix = Unbound
    /\ observations = Unbound /\ events = Unbound
    /\ data_loaded = FALSE
    /\ year_range = <<>> /\ selected_pillars = {}
    /\ filtered_obs = Unbound /\ trend_data = {}
    /\ current_acc = NaN /\ prev_acc = NaN
    /\ record_counts = {} /\ events_summary = <<>>
    /\ model_type = "" /\ show_ci = FALSE /\ selected_scenario = ""

InitProcess ==
    /\ cache_load_data = {}
    /\ cache_process_observations = {}
    /\ cache_process_events = {}
    /\ pc = "idle" /\ page = "Overview"
    /\ reads = <<>> /\ raised = ""
    /\ UnboundLocals
    /\ ui = {} /\ downloads = {}
    /\ load_failed_before = FALSE

MainFiles(tables) == {File(t) : t \in tables} \cup {MissingFile, NoColsFile}

\* A session during which the files may be rewritten, removed or restored.
Init ==
    /\ disk \in [main : MainFiles(SessionTables),
                 forecast : ForecastFiles \cup {MissingFile},
                 impact : ImpactFiles \cup {MissingFile}]
    /\ InitProcess

\* Every enumerated unified table, on a disk that does not change.
InitData ==
    /\ disk \in [main : MainFiles(DataTables),
                 forecast : {File(ForecastRows(62))},
                 impact : ImpactFiles]
    /\ InitProcess

\* ----------------------------------------------------------------- actions

\* A user interaction: Streamlit runs the script again from the top, in a
\* fresh namespace, with the sidebar radio at p.
Rerun(p) ==
    /\ pc \in {"idle", "done"}
    /\ pc' = "load_data"
    /\ page' = p
    /\ reads' = <<>> /\ raised' = ""
    /\ main_data' = Unbound /\ forecast_data' = Unbound /\ impact_matrix' = Unbound
    /\ observations' = Unbound /\ events' = Unbound
    /\ data_loaded' = FALSE
    /\ year_range' = <<>> /\ selected_pillars' = {}
    /\ filtered_obs' = Unbound /\ trend_data' = {}
    /\ current_acc' = NaN /\ prev_acc' = NaN
    /\ record_counts' = {} /\ events_summary' = <<>>
    /\ model_type' = "" /\ show_ci' = FALSE /\ selected_scenario' = ""
    /\ ui' = {} /\ downloads' = {}
    /\ load_failed_before' = (load_failed_before \/ raised = "load_data")
    /\ UNCHANGED <<disk, cacheVars>>

\* except Exception as e: st.error(...); data_loaded = False
Handler(call) ==
    /\ raised' = call
    /\ ui' = ui \cup {ErrorElement}
    /\ data_loaded' = FALSE
    /\ pc' = "page"

\* The body of load_data: three pd.read_csv calls in order; the first file
\* that cannot be read raises and the later ones are not opened.
files_read_with_retry(d) ==
    IF d.main.state = "missing" THEN <<"main", "main">>
    ELSE IF d.forecast.state = "missing" THEN <<"main", "forecast", "forecast">>
    ELSE <<"main", "forecast", "impact">>
files_read(d) ==
    IF d.main.state = "missing" THEN <<"main">>
    ELSE IF d.forecast.state = "missing" THEN <<"main", "forecast">>
    ELSE <<"main", "forecast", "impact">>

load_raises(d) == \E f \in Range(FileNames) : d[f].state = "missing"

load_result(d) ==
    [main |-> read_csv(d.main), forecast |-> read_csv(d.forecast),
     impact |-> read_csv(d.impact)]

\* main_data, forecast_data, impact_matrix = load_data()
CallLoadData ==
    /\ pc = "load_data"
    /\ LET hit == cache_entries(cache_load_data)
           bind(res) ==
               /\ main_data' = res.main
               /\ forecast_data' = res.forecast
               /\ impact_matrix' = res.impact
               /\ pc' = "process_observations"
               /\ UNCHANGED <<raised, ui, data_loaded>>
       IN  IF hit # {}
           THEN /\ bind(CHOOSE res \in hit : TRUE)
                /\ UNCHANGED <<reads, cache_load_data>>
           ELSE /\ reads' = reads \o files_read(disk)
                /\ IF load_raises(disk)
                   THEN /\ Handler("load_data")
                        /\ UNCHANGED <<loadVars, cache_load_data>>
                   ELSE /\ bind(load_result(disk))
                        /\ cache_load_data' = {load_result(disk)}
    /\ UNCHANGED <<disk, cache_process_observations, cache_process_events, page,
                   observations, events, trendVars, accVars, forecastVars,
                   downloads, load_failed_before>>

\* The caller's frame after process_observations / process_events ran on it:
\* the year column is assigned on the .copy(), the argument keeps its columns.
source_without_copy(df) ==
    [df EXCEPT !.rows = [i \in DOMAIN df.rows |->
                            df.rows[i] @@ [year |-> to_year(df.rows[i].observation_date)]]]
source_after_copy(df) == df

\* main_data['record_type'] / ['observation_date'] raise KeyError on a frame
\* without these columns.
partition_raises(df) == df.state # "ok"

\* observations = process_observations(main_data)
CallProcessObservations ==
    /\ pc = "process_observations"
    /\ LET hit == {e \in cache_entries(cache_process_observations) :
                      e.arg = main_data}
       IN  IF hit # {}
           THEN /\ observations' = (CHOOSE e \in hit : TRUE).val
                /\ pc' = "process_events"
                /\ UNCHANGED <<cache_process_observations, raised, ui, data_loaded>>
           ELSE IF partition_raises(main_data)
           THEN /\ Handler("process_observations")
                /\ UNCHANGED <<cache_process_observations, observations>>
           ELSE /\ observations' = partition(main_data, "observation")
                /\ cache_process_observations' =
                       cache_process_observations \cup
                       {[arg |-> main_data,
                         val |-> partition(main_data, "observation")]}
                /\ pc' = "process_events"
                /\ UNCHANGED <<raised, ui, data_loaded>>
    /\ main_data' = IF partition_raises(main_data) THEN main_data
                    ELSE source_after_copy(main_data)
    /\ UNCHANGED <<disk, cache_load_data, cache_process_events, page, reads,
                   forecast_data, impact_matrix, events, trendVars, accVars,
                   forecastVars, downloads, load_failed_before>>

\* events = process_events(main_data); data_loaded = True
CallProcessEvents ==
    /\ pc = "process_events"
    /\ LET hit == {e \in cache_entries(cache_process_events) : e.arg = main_data}
       IN  IF hit # {}
           THEN /\ events' = (CHOOSE e \in hit : TRUE).val
                /\ data_loaded' = TRUE /\ pc' = "page"
                /\ UNCHANGED <<cache_process_events, raised, ui>>
           ELSE IF partition_raises(main_data)
           THEN /\ Handler("process_events")
                /\ UNCHANGED <<cache_process_events, events>>
           ELSE /\ events' = partition(main_data, "event")
                /\ cache_process_events' =
                       cache_process_events \cup
                       {[arg |-> main_data, val |-> partition(main_data, "event")]}
                /\ data_loaded' = TRUE /\ pc' = "page"
                /\ UNCHANGED <<raised, ui>>
    /\ main_data' = IF partition_raises(main_data) THEN main_data
                    ELSE source_after_copy(main_data)
    /\ UNCHANGED <<disk, cache_load_data, cache_process_observations, page, reads,
                   forecast_data, impact_matrix, observations, trendVars, accVars,
                   forecastVars, downloads, load_failed_before>>

\* ------------------------------------------------------------------ pages

\* `if data_loaded:` at the top of every page body.
page_guard_always(dl) == TRUE
page_guard(dl) == dl

\* main_data['record_type'].value_counts(): the count of each value present.
value_counts(df) ==
    {[record_type |-> t,
      count |-> Cardinality({i \in DOMAIN df.rows : df.rows[i].record_type = t})] :
        t \in {r.record_type : r \in Range(df.rows)} \ {NaS}}

HeadRows == 8

\* events[['indicator', 'year']].dropna()
events_dropna(ev) ==
    SelectSeq([i \in DOMAIN ev.rows |->
                  [indicator |-> ev.rows[i].indicator, year |-> ev.rows[i].year,
                   idx |-> ev.rows[i].idx]],
              LAMBDA r : r.indicator # NaS /\ r.year # NaN)

\* sort_values('year', ascending=False): every ordering the sort may produce,
\* built front to back from the rows no other remaining row must precede.
RECURSIVE orderings_desc(_)
orderings_desc(S) ==
    IF S = {} THEN {<<>>}
    ELSE UNION {{<<m>> \o t : t \in orderings_desc(S \ {m})} :
                   m \in {x \in S : \A y \in S : year_le(y.year, x.year)}}

sort_values_year_desc(rows) == orderings_desc(Range(rows))

head_unlimited(s, n) == s
head(s, n) == SubSeq(s, 1, IF Len(s) < n THEN Len(s) ELSE n)

PageOverview ==
    /\ pc = "page" /\ page = "Overview"
    /\ IF page_guard(data_loaded)
       THEN /\ \E acc_ownership \in
                   sort_values_year(SelectSeq(observations.rows, acc_mask)) :
                   /\ current_acc' = current_acc_of(acc_ownership)
                   /\ prev_acc' = prev_acc_of(acc_ownership)
            /\ record_counts' = value_counts(main_data)
            /\ \E sorted \in sort_values_year_desc(events_dropna(events)) :
                   events_summary' = head(sorted, HeadRows)
            /\ ui' = ui \cup FrameElements(page) \cup OverviewElements
       ELSE /\ ui' = ui \cup FrameElements(page)
            /\ UNCHANGED accVars
    /\ pc' = "done"
    /\ UNCHANGED <<disk, cacheVars, page, reads, raised, loadVars, observations,
                   events, data_loaded, trendVars, forecastVars, downloads,
                   load_failed_before>>

PageTrends ==
    /\ pc = "page" /\ page = "Trends"
    /\ IF page_guard(data_loaded)
       THEN \E yr \in YearRanges, sel \in PillarSelections :
              LET f == filter_observations(observations, sel, yr)
              IN  /\ year_range' = yr
                  /\ selected_pillars' = sel
                  /\ filtered_obs' = f
                  /\ IF Len(f.rows) > 0
                     THEN /\ trend_data' = groupby_mean(f)
                          /\ ui' = ui \cup FrameElements(page) \cup TrendsWidgets
                                      \cup {TrendsChart} \cup TrendsRest
                     ELSE /\ trend_data' = {}
                          /\ ui' = ui \cup FrameElements(page) \cup TrendsWidgets
                                      \cup {TrendsNoData} \cup TrendsRest
                  /\ downloads' = {Download("ethiopia_fi_observations.csv",
                                            to_csv(observations))}
       ELSE /\ ui' = ui \cup FrameElements(page)
            /\ UNCHANGED <<trendVars, downloads>>
    /\ pc' = "done"
    /\ UNCHANGED <<disk, cacheVars, page, reads, raised, loadVars, observations,
                   events, data_loaded, accVars, forecastVars, load_failed_before>>

PageForecasts ==
    /\ pc = "page" /\ page = "Forecasts"
    /\ IF page_guard(data_loaded)
       THEN \E m \in ModelTypes, ci \in BOOLEAN :
              /\ model_type' = m /\ show_ci' = ci
              /\ ui' = ui \cup FrameElements(page) \cup ForecastsElements
              /\ downloads' = {Download("ethiopia_fi_forecasts_2025_2027.csv",
                                        to_csv(forecast_data))}
              /\ UNCHANGED selected_scenario
       ELSE /\ ui' = ui \cup FrameElements(page)
            /\ UNCHANGED <<forecastVars, downloads>>
    /\ pc' = "done"
    /\ UNCHANGED <<disk, cacheVars, page, reads, raised, loadVars, observations,
                   events, data_loaded, trendVars, accVars, load_failed_before>>

PageProjections ==
    /\ pc = "page" /\ page = "Inclusion Projections"
    /\ IF page_guard(data_loaded)
       THEN \E sc \in Scenarios :
              /\ selected_scenario' = sc
              /\ ui' = ui \cup FrameElements(page) \cup ProjectionsElements
              /\ downloads' = {Download("ethiopia_fi_forecasts.csv",
                                        to_csv(forecast_data)),
                               Download("event_impact_matrix.csv",
                                        to_csv(impact_matrix))}
              /\ UNCHANGED <<model_type, show_ci>>
       ELSE /\ ui' = ui \cup FrameElements(page)
            /\ UNCHANGED <<forecastVars, downloads>>
    /\ pc' = "done"
    /\ UNCHANGED <<disk, cacheVars, page, reads, raised, loadVars, observations,
                   events, data_loaded, trendVars, accVars, load_failed_before>>

\* The environment rewrites, removes or restores one of the files.
DiskWrite ==
    /\ \E f \in Range(FileNames) :
         \E c \in (CASE f = "main" -> MainFiles(SessionTables)
                     [] f = "forecast" -> ForecastFiles \cup {MissingFile}
                     [] OTHER -> ImpactFiles \cup {MissingFile}) :
            /\ c # disk[f]
            /\ disk' = [disk EXCEPT ![f] = c]
    /\ UNCHANGED <<cacheVars, pc, page, reads, raised, loadVars, observations,
                   events, data_loaded, trendVars, accVars, forecastVars, ui,
                   downloads, load_failed_before>>

Run ==
    \/ \E p \in Pages : Rerun(p)
    \/ CallLoadData
    \/ CallProcessObservations
    \/ CallProcessEvents
    \/ PageOverview
    \/ PageTrends
    \/ PageForecasts
    \/ PageProjections

Next == Run \/ DiskWrite

Spec == Init /\ [][Next]_vars

NextData == Run

SpecData == InitData /\ [][NextData]_vars

\* Every enumerated event table, on a disk that does not change.
InitEvents ==
    /\ disk \in [main : {File(t) : t \in EventTables},
                 forecast : {File(ForecastRows(62))},
                 impact : ImpactFiles]
    /\ InitProcess

\* Runs that show the Overview page.
NextEvents ==
    \/ Rerun("Overview")
    \/ CallLoadData
    \/ CallProcessObservations
    \/ CallProcessEvents
    \/ PageOverview

SpecEvents == InitEvents /\ [][NextEvents]_vars

\* ------------------------------------------------------------------ claims

TrendsDone == pc = "done" /\ page = "Trends" /\ data_loaded
OverviewDone == pc = "done" /\ page = "Overview" /\ data_loaded

Parseable(r) == r.observation_date.fmt \in ParseableFormats
KeyOf(g) == <<g.indicator_code, g.year, g.pillar>>
Present(S) == {r \in S : r.value_numeric # NaN}
NoRepeats(s) == \A i, j \in DOMAIN s : i # j => s[i] # s[j]

\* C1: the rows the Trends filter retains are exactly the observation rows whose
\* pillar is selected, whose year lies in [year_range[0], year_range[1]] with
\* both ends included, and whose unit is '%'.
C1_FilterExact ==
    TrendsDone =>
        /\ Range(filtered_obs.rows) =
              {r \in Range(observations.rows) :
                  /\ r.pillar \in selected_pillars
                  /\ r.year # NaN
                  /\ year_range[1] <= r.year[1]
                  /\ r.year[1] <= year_range[2]
                  /\ r.unit = "%"}
        /\ \A r \in Range(filtered_obs.rows) :
              main_data.rows[r.idx + 1].record_type = "observation"

C1_Witness ==
    /\ TrendsDone
    /\ year_range[1] < year_range[2]
    /\ \E r \in Range(filtered_obs.rows) : r.year[1] = year_range[2]
    /\ \E r \in Range(filtered_obs.rows) : r.year[1] = year_range[1]
    /\ \E r \in Range(observations.rows) : r \notin Range(filtered_obs.rows)

\* C2: a record whose observation_date cannot be parsed has an absent year (not
\* 0, not any other year), is never retained by the Trends filter and never
\* stands behind an aggregated group.
C2_UnparseableYearAbsent ==
    /\ \A r \in Range(observations.rows) \cup Range(events.rows) :
          ~Parseable(r) => r.year = NaN
    /\ TrendsDone =>
          /\ \A r \in Range(filtered_obs.rows) : Parseable(r)
          /\ \A g \in trend_data :
                /\ g.year # NaN /\ g.year # <<0>>
                /\ \A r \in Range(observations.rows) :
                      (has_group_key(r) /\ group_key(r) = KeyOf(g)) => Parseable(r)

C2_Witness ==
    /\ TrendsDone
    /\ year_range = <<SliderMin, SliderMax>>
    /\ trend_data # {}
    /\ \E r \in Range(observations.rows) :
          /\ r.observation_date.fmt = "text"
          /\ r.pillar \in selected_pillars /\ r.unit = "%"
          /\ r.year = NaN
          /\ r \notin Range(filtered_obs.rows)

\* C3: current is the value of the matching (ACC_OWNERSHIP, all) row with the
\* greatest year and previous the value of the matching row with the
\* next-greatest year, also when some matching rows have an absent year.
C3_LatestAndPrevious ==
    OverviewDone =>
        LET dated == {r \in Range(observations.rows) : acc_mask(r) /\ r.year # NaN}
        IN  dated # {} =>
              \E r1 \in dated :
                 /\ \A x \in dated : x.year[1] <= r1.year[1]
                 /\ current_acc = r1.value_numeric
                 /\ Cardinality(dated) >= 2 =>
                       \E r2 \in dated \ {r1} :
                          /\ \A x \in dated \ {r1} : x.year[1] <= r2.year[1]
                          /\ prev_acc = r2.value_numeric

C5_AllAbsentGroupDropped ==
    TrendsDone =>
        \A g \in trend_data :
           /\ g.value_numeric # NaN
           /\ Present({r \in Range(filtered_obs.rows) : group_key(r) = KeyOf(g)}) # {}

\* C6: grouping partitions the filtered rows: every filtered row (also one
\* whose indicator_code is absent) lies in exactly one output group, and no two
\* output tuples share a key.
C6_GroupingIsPartition ==
    (TrendsDone /\ Len(filtered_obs.rows) > 0) =>
        /\ \A r \in Range(filtered_obs.rows) :
              Cardinality({g \in trend_data : KeyOf(g) = group_key(r)}) = 1
        /\ \A g, h \in trend_data : KeyOf(g) = KeyOf(h) => g = h

\* C7: the mean reported for a group with at least one non-absent value is the
\* sum of its non-absent values over their number; absent values are neither
\* counted nor taken as 0.
C7_MeanSkipsAbsent ==
    TrendsDone =>
        \A g \in trend_data :
           LET present ==
                  Present({r \in Range(filtered_obs.rows) : group_key(r) = KeyOf(g)})
           IN  present # {} =>
                  /\ g.value_numeric # NaN
                  /\ g.value_numeric[1].num * Cardinality(present) =
                        sum_values(present) * g.value_numeric[1].den

\* A group with values [10, 20, absent] and mean 15.
C7_Witness ==
    /\ TrendsDone
    /\ \E g \in trend_data :
          LET rows == {r \in Range(filtered_obs.rows) : group_key(r) = KeyOf(g)}
          IN  /\ {r.value_numeric : r \in rows} = {<<10>>, <<20>>, NaN}
              /\ Cardinality(rows) = 3
              /\ g.value_numeric = <<[num |-> 15, den |-> 1]>>

C9_NoPartialRender ==
    (pc \in {"page", "done"} /\ ~data_loaded) =>
        /\ raised \in {"load_data", "process_observations", "process_events"}
        /\ ErrorElement \in ui
        /\ Content(ui) = {} /\ downloads = {}
        /\ trend_data = {} /\ filtered_obs = Unbound
        /\ raised = "load_data" =>
              main_data = Unbound /\ forecast_data = Unbound /\ impact_matrix = Unbound
        /\ observations = Unbound /\ events = Unbound

C9_Witness ==
    /\ pc = "done" /\ page = "Trends"
    /\ raised = "process_observations"
    /\ main_data # Unbound
    /\ ErrorElement \in ui

\* C10: once load_data has succeeded, its memo entry never changes, no later
\* step reads a file, and every later run binds the memoized tables and the
\* partitions derived from them, whatever the files on disk have become.
C10_LoadMemoized ==
    [][cache_load_data # {} =>
          /\ cache_load_data' = cache_load_data
          /\ reads' = reads \/ reads' = <<>>
          /\ \A res \in cache_load_data :
                /\ main_data' \in {Unbound, res.main}
                /\ forecast_data' \in {Unbound, res.forecast}
                /\ impact_matrix' \in {Unbound, res.impact}
                /\ observations' \in {Unbound, partition(res.main, "observation")}
                /\ events' \in {Unbound, partition(res.main, "event")}
                /\ pc' \in {"process_observations", "process_events"} =>
                      main_data' = res.main]_vars

\* A run served from the memo after the unified file was rewritten.
C10_Witness ==
    /\ pc = "done" /\ data_loaded
    /\ reads = <<>>
    /\ disk.main.state = "ok" /\ disk.forecast.state = "ok"
    /\ read_csv(disk.main) # main_data
    /\ read_csv(disk.forecast) # forecast_data
    /\ observations.rows # <<>>

Idx(df) == {r.idx : r \in Range(df.rows)}

\* C11 (as claimed): every record of the unified table is in exactly one of the
\* observation set and the event set.
C11_PartitionCoversTable ==
    data_loaded =>
        \A r \in Range(main_data.rows) :
           (r.idx \in Idx(observations)) # (r.idx \in Idx(events))

\* C11 (amended): the two sets are disjoint, a record is in the observation set
\* exactly if its record_type is 'observation' and in the event set exactly if
\* it is 'event'; a record of any other record_type is in neither set.
C11_PartitionByRecordType ==
    data_loaded =>
        /\ Idx(observations) \cap Idx(events) = {}
        /\ Len(observations.rows) = Cardinality(Idx(observations))
        /\ Len(events.rows) = Cardinality(Idx(events))
        /\ \A r \in Range(main_data.rows) :
              /\ r.idx \in Idx(observations) <=> r.record_type = "observation"
              /\ r.idx \in Idx(events) <=> r.record_type = "event"
        /\ \A r \in Range(observations.rows) \cup Range(events.rows) :
              \E m \in Range(main_data.rows) :
                 m = [c \in DOMAIN m |-> r[c]]

\* A table with an observation, an event and a record that is neither.
C11_Witness ==
    /\ data_loaded /\ pc = "done"
    /\ Len(observations.rows) = 1 /\ Len(events.rows) = 1
    /\ \E r \in Range(main_data.rows) : r.record_type = "target"

Columns(r) == (DOMAIN r) \ {"idx"}
SameCells(a, b) == Columns(a) = Columns(b) /\ \A c \in Columns(a) : a[c] = b[c]

C14_EmptyResultShowsMessage ==
    (TrendsDone /\ trend_data = {}) =>
        (TrendsNoData \in ui /\ TrendsChart \notin ui)

\* The payload d holds the rows and columns of the loaded table df, no more.
ExportsTable(d, df) ==
    /\ Len(d.data) = Len(df.rows)
    /\ \A i \in DOMAIN d.data :
          "idx" \notin DOMAIN d.data[i] /\ SameCells(d.data[i], df.rows[i])

\* C15: the forecast export of the Forecasts and Inclusion Projections pages
\* and the impact-matrix export hold exactly the rows and columns of the loaded
\* forecast table and impact matrix, whatever model, confidence-interval and
\* scenario widgets are set to.
C15_ExportsLoadedTables ==
    (pc = "done" /\ data_loaded) =>
        \A res \in cache_load_data :
           /\ page = "Forecasts" =>
                 /\ {d.file_name : d \in downloads} =
                        {"ethiopia_fi_forecasts_2025_2027.csv"}
                 /\ \A d \in downloads :
                       ExportsTable(d, res.forecast) /\ File(d.data) \in ForecastFiles
           /\ page = "Inclusion Projections" =>
                 /\ {d.file_name : d \in downloads} =
                        {"ethiopia_fi_forecasts.csv", "event_impact_matrix.csv"}
                 /\ \A d \in downloads :
                       IF d.file_name = "ethiopia_fi_forecasts.csv"
                       THEN ExportsTable(d, res.forecast) /\ File(d.data) \in ForecastFiles
                       ELSE ExportsTable(d, res.impact) /\ File(d.data) \in ImpactFiles

\* Both exports of the Projections page, of tables loaded before the forecast
\* file was rewritten.
C15_Witness ==
    /\ pc = "done" /\ data_loaded /\ page = "Inclusion Projections"
    /\ selected_scenario = "Pessimistic"
    /\ Cardinality(downloads) = 2
    /\ disk.forecast.state = "ok"
    /\ \A d \in downloads : d.data # << >> /\ d.data # disk.forecast.rows

\* The events the timeline may show: indicator and year both present.
TimelineEvents ==
    {r \in Range(events.rows) : r.indicator # NaS /\ r.year # NaN}
Shown == Range(events_summary)

\* C17: the Events Timeline shows at most 8 rows, each an event with indicator
\* and year present, in non-increasing year order, and no event with both
\* fields present that is left out is later than a shown one.
C17_EventsTimeline ==
    OverviewDone =>
        /\ Len(events_summary) <= 8
        /\ Cardinality(Shown) = Len(events_summary)
        /\ \A s \in Shown :
              /\ s.indicator # NaS /\ s.year # NaN
              /\ \E r \in TimelineEvents :
                    r.idx = s.idx /\ r.indicator = s.indicator /\ r.year = s.year
        /\ \A i, j \in DOMAIN events_summary :
              i < j => events_summary[i].year[1] >= events_summary[j].year[1]
        /\ \A r \in TimelineEvents :
              r.idx \notin {s.idx : s \in Shown} =>
                 /\ Len(events_summary) = 8
                 /\ \A s \in Shown : r.year[1] <= s.year[1]

\* A full timeline that leaves out an older event, an undated event and a
\* later event without an indicator.
C17_Witness ==
    /\ OverviewDone
    /\ Len(events_summary) = 8
    /\ Cardinality(TimelineEvents) > 8
    /\ \E r \in Range(events.rows) : r.indicator # NaS /\ r.year = NaN
    /\ \E r \in Range(events.rows) :
          r.indicator = NaS /\ r.year # NaN /\
          \A s \in Shown : r.year[1] > s.year[1]
    /\ \E i \in DOMAIN events_summary :
          i < 8 /\ events_summary[i].year = events_summary[i + 1].year

====
